---- MODULE Spec2Model ----
(***************************************************************************)
(* Revenue aggregation engine of the Table Tech revenue tracker            *)
(* (table_tech_multi_business_revenue_tracker_react.tsx).                  *)
(*                                                                         *)
(* Encodings                                                               *)
(*   month key  "YYYY-MM"     the number YYYY*100 + MM (string order is    *)
(*                            number order for four-digit years)           *)
(*   date       "YYYY-MM-DD"  the number YYYY*10000 + MM*100 + DD          *)
(*   Date object              its time value in hours since 1970-01-01     *)
(*                            00:00 UTC (all Dates built here are whole    *)
(*                            hours)                                       *)
(*   tz                       host offset in hours, local = UTC + tz,      *)
(*                            constant over the year (no DST)              *)
(*   price                    in units of 1/PriceDen euro                  *)
(*   map[mk] (running total)  in units of 1/(12*PriceDen) euro, so that    *)
(*                            price/12 is exact; JS doubles are modelled   *)
(*                            as exact rationals                           *)
(***************************************************************************)
EXTENDS Integers, Sequences, FiniteSets, TLC

\* tz, months, pc, ret: the host and the call the engine is probed with;
\* subs: the items list (state.subs of App, subs of useDatabase);
\* db: the revenue_entries table; companies, loading, error: the other state
\* of the useDatabase hook; proc: the position and locals of each async call
VARIABLES tz, subs, months, pc, ret, db, companies, loading, error, proc

vars == <<tz, subs, months, pc, ret, db, companies, loading, error, proc>>

hookVars == <<db, companies, loading, error, proc>>

-----------------------------------------------------------------------------
(* Bounds of the model *)

\* prices are multiples of 1/PriceDen euro
PriceDen == 2
\* first calendar year of the item dates and of the requested months
FirstYear == 2024
\* number of calendar years the requested months span
NumYears == 2
\* longest items list
MaxItems == 2
\* longest free-form months list
MaxMonthsLen == 2

\* cancelDate: string | null
NULL == 0

-----------------------------------------------------------------------------
(* JavaScript Date *)

\* days from 1970-01-01 to the civil date y-m-d (proleptic Gregorian), m in 1..12
DaysFromCivil(y, m, d) ==
    LET yy  == IF m <= 2 THEN y - 1 ELSE y
        era == yy \div 400
        yoe == yy - era * 400
        mp  == IF m > 2 THEN m - 3 ELSE m + 9
        doy == (153 * mp + 2) \div 5 + d - 1
        doe == yoe * 365 + yoe \div 4 - yoe \div 100 + doy
    IN  era * 146097 + doe - 719468

\* MakeDay of ECMAScript: month index mi (0-based) may overflow the year, and
\* day d may be 0 or exceed the month: the result is day 1 of the month plus d-1
MakeDay(y, mi, d) ==
    LET a == y * 12 + mi
    IN  DaysFromCivil(a \div 12, (a % 12) + 1, 1) + d - 1

\* new Date("YYYY-MM-DD"): a date-only ISO string is read as UTC midnight
DateFromString(s) ==
    MakeDay(s \div 10000, ((s \div 100) % 100) - 1, s % 100) * 24

\* new Date(y, mi, d): local midnight of the host
DateLocal(zone, y, mi, d) == MakeDay(y, mi, d) * 24 - zone

\* the civil year and month of day number z (days since 1970-01-01), as the
\* absolute month index year*12 + 0-based month
MonthFromDays(z) ==
    LET zz  == z + 719468
        era == zz \div 146097
        doe == zz - era * 146097
        yoe == (doe - doe \div 1460 + doe \div 36524 - doe \div 146096) \div 365
        doy == doe - (365 * yoe + yoe \div 4 - yoe \div 100)
        mp  == (5 * doy + 2) \div 153
        m   == IF mp < 10 THEN mp + 3 ELSE mp - 9
        y   == yoe + era * 400 + (IF m <= 2 THEN 1 ELSE 0)
    IN  y * 12 + m - 1

\* the month of the local calendar day the instant t falls on: getFullYear()
\* and getMonth() read from it
LocalMonthIndex(zone, t) == MonthFromDays((t + zone) \div 24)

getFullYear(zone, t) == LocalMonthIndex(zone, t) \div 12

getMonth(zone, t) == LocalMonthIndex(zone, t) % 12

\* `${y}-${String(m).padStart(2, "0")}`
FormatMonthKey(y, m) == y * 100 + m

\* mk.split("-").map(Number)
ParseMonthKey(mk) == <<mk \div 100, mk % 100>>

-----------------------------------------------------------------------------
(* Utils *)

monthKey(zone, s) ==
    LET dt == DateFromString(s)
    IN  FormatMonthKey(getFullYear(zone, dt), getMonth(zone, dt) + 1)

\* the while loop: cur is pushed and advanced by setMonth(getMonth() + 1)
\* as long as cur <= last
RECURSIVE monthsLoop(_, _, _, _)
monthsLoop(zone, cur, last, out) ==
    IF cur <= last
    THEN LET y  == getFullYear(zone, cur)
             mi == getMonth(zone, cur)
         IN  monthsLoop(zone, DateLocal(zone, y, mi + 1, 1), last,
                        Append(out, FormatMonthKey(y, mi + 1)))
    ELSE out

\* monthsBetweenInclusive with the loop starting one month late: the start
\* month is left out
monthsBetweenInclusive_startExclusive(zone, startYYYYMM, endYYYYMM) ==
    LET s == ParseMonthKey(startYYYYMM)
        e == ParseMonthKey(endYYYYMM)
    IN  monthsLoop(zone, DateLocal(zone, s[1], s[2], 1),
                   DateLocal(zone, e[1], e[2] - 1, 1), <<>>)

monthsBetweenInclusive(zone, startYYYYMM, endYYYYMM) ==
    LET s == ParseMonthKey(startYYYYMM)
        e == ParseMonthKey(endYYYYMM)
    IN  monthsLoop(zone, DateLocal(zone, s[1], s[2] - 1, 1),
                   DateLocal(zone, e[1], e[2] - 1, 1), <<>>)

isActiveInMonth(zone, sub, year, month) ==
    IF sub.billingType = "onetime"
    THEN FormatMonthKey(year, month) = monthKey(zone, sub.startDate)
    ELSE IF sub.billingType = "variable"
    THEN FormatMonthKey(year, month) \in DOMAIN sub.variableAmounts
    ELSE LET mStart == DateLocal(zone, year, month - 1, 1)
             mEnd   == DateLocal(zone, year, month, 0)
             start  == DateFromString(sub.startDate)
             activeStart == start <= mEnd
             activeEnd   == \/ sub.cancelDate = NULL
                            \/ DateFromString(sub.cancelDate) >= mStart
         IN  activeStart /\ activeEnd

SeqToSet(s) == {s[i] : i \in 1..Len(s)}

\* billMonthsCash with the cadence test the wrong way round: a monthly item is
\* billed in its anniversary month only and a yearly item in every active month
billMonthsCash_cadenceSwapped(zone, sub, fromYYYYMM, toYYYYMM) ==
    LET ms == monthsBetweenInclusive(zone, fromYYYYMM, toYYYYMM)
    IN  IF sub.billingType = "onetime"
        THEN {mk \in SeqToSet(ms) : mk = monthKey(zone, sub.startDate)}
        ELSE IF sub.billingType = "variable"
        THEN {mk \in SeqToSet(ms) : mk \in DOMAIN sub.variableAmounts}
        ELSE LET annMonth == getMonth(zone, DateFromString(sub.startDate)) + 1
             IN  {mk \in SeqToSet(ms) :
                    /\ isActiveInMonth(zone, sub, ParseMonthKey(mk)[1], ParseMonthKey(mk)[2])
                    /\ (sub.cadence = "yearly" \/ ParseMonthKey(mk)[2] = annMonth)}

\* billMonthsCash billing a one-time item in the last month of the range
\* instead of the month of its payment date
billMonthsCash_oneTimeAtRangeEnd(zone, sub, fromYYYYMM, toYYYYMM) ==
    LET ms == monthsBetweenInclusive(zone, fromYYYYMM, toYYYYMM)
    IN  IF sub.billingType = "onetime"
        THEN {mk \in SeqToSet(ms) : mk = toYYYYMM}
        ELSE IF sub.billingType = "variable"
        THEN {mk \in SeqToSet(ms) : mk \in DOMAIN sub.variableAmounts}
        ELSE LET annMonth == getMonth(zone, DateFromString(sub.startDate)) + 1
             IN  {mk \in SeqToSet(ms) :
                    /\ isActiveInMonth(zone, sub, ParseMonthKey(mk)[1], ParseMonthKey(mk)[2])
                    /\ (sub.cadence = "monthly" \/ ParseMonthKey(mk)[2] = annMonth)}

\* the Set<string> the function returns
billMonthsCash(zone, sub, fromYYYYMM, toYYYYMM) ==
    LET ms == monthsBetweenInclusive(zone, fromYYYYMM, toYYYYMM)
    IN  IF sub.billingType = "onetime"
        THEN {mk \in SeqToSet(ms) : mk = monthKey(zone, sub.startDate)}
        ELSE IF sub.billingType = "variable"
        THEN {mk \in SeqToSet(ms) : mk \in DOMAIN sub.variableAmounts}
        ELSE LET annMonth == getMonth(zone, DateFromString(sub.startDate)) + 1
             IN  {mk \in SeqToSet(ms) :
                    /\ isActiveInMonth(zone, sub, ParseMonthKey(mk)[1], ParseMonthKey(mk)[2])
                    /\ (sub.cadence = "monthly" \/ ParseMonthKey(mk)[2] = annMonth)}

\* monthlyMRR without the division by 12 of a yearly price
monthlyMRR_yearlyUndivided(sub) ==
    IF sub.billingType = "onetime" THEN 0
    ELSE IF sub.billingType = "variable" THEN 0
    ELSE 12 * sub.price

\* sub.price and sub.price / 12 in units of 1/(12*PriceDen) euro
monthlyMRR(sub) ==
    IF sub.billingType = "onetime" THEN 0
    ELSE IF sub.billingType = "variable" THEN 0
    ELSE IF sub.cadence = "monthly" THEN 12 * sub.price ELSE sub.price

\* Math.round on a value of u map units: floor(x + 1/2)
MathRound(u) == (2 * u + 12 * PriceDen) \div (2 * 12 * PriceDen)

\* the map with every total starting at one euro instead of 0
newMap_startsAtOne(ms) == [k \in SeqToSet(ms) |-> 12 * PriceDen]

\* Object.fromEntries(months.map((k) => [k, 0]))
newMap(ms) == [k \in SeqToSet(ms) |-> 0]

\* the variable loop adding sub.price where it should add the month's amount
addVariable_addsPrice(map, sub, ms, i) ==
    [k \in DOMAIN map |->
        map[k] + 12 * sub.price * Cardinality({j \in i..Len(ms) :
                     ms[j] = k /\ k \in DOMAIN sub.variableAmounts})]

\* for (const mk of months) { const v = sub.variableAmounts?.[mk]; if (v != null) map[mk] += v; }
RECURSIVE addVariable(_, _, _, _)
addVariable(map, sub, ms, i) ==
    IF i > Len(ms) THEN map
    ELSE addVariable(IF ms[i] \in DOMAIN sub.variableAmounts
                     THEN [map EXCEPT ![ms[i]] = @ + 12 * sub.variableAmounts[ms[i]]]
                     ELSE map,
                     sub, ms, i + 1)

\* the cash loop rounding each item's price before it is added
addCash_roundedPerItem(map, sub, cashMonths) ==
    [k \in DOMAIN map |->
        IF k \in cashMonths
        THEN map[k] + 12 * PriceDen * ((2 * sub.price + PriceDen) \div (2 * PriceDen))
        ELSE map[k]]

\* for (const mk of cashMonths) map[mk] += sub.price;
\* a cash month that is no key of map makes a NaN property no point reads
addCash(map, sub, cashMonths) ==
    [k \in DOMAIN map |-> IF k \in cashMonths THEN map[k] + 12 * sub.price ELSE map[k]]

\* for (const mk of months) { if (isActiveInMonth(sub, y, m)) map[mk] += monthlyMRR(sub); }
RECURSIVE addMRR(_, _, _, _, _)
addMRR(zone, map, sub, ms, i) ==
    IF i > Len(ms) THEN map
    ELSE addMRR(zone,
                IF isActiveInMonth(zone, sub, ParseMonthKey(ms[i])[1], ParseMonthKey(ms[i])[2])
                THEN [map EXCEPT ![ms[i]] = @ + monthlyMRR(sub)]
                ELSE map,
                sub, ms, i + 1)

\* the body of `for (const sub of subs)`; acc is [threw, map].  months[0] of an
\* empty list is undefined, and monthsBetweenInclusive calls split on it:
\* a TypeError leaves calcSeries
subStep(zone, acc, sub, md, ms) ==
    IF acc.threw THEN acc
    ELSE IF md = "cash"
    THEN IF sub.billingType = "variable"
         THEN [acc EXCEPT !.map = addVariable(acc.map, sub, ms, 1)]
         ELSE IF Len(ms) = 0
         THEN [acc EXCEPT !.threw = TRUE]
         ELSE [acc EXCEPT !.map =
                  addCash(acc.map, sub, billMonthsCash(zone, sub, ms[1], ms[Len(ms)]))]
    ELSE IF sub.billingType = "variable"
         THEN acc
         ELSE [acc EXCEPT !.map = addMRR(zone, acc.map, sub, ms, 1)]

RECURSIVE subsLoop(_, _, _, _, _, _)
subsLoop(zone, acc, ss, md, ms, i) ==
    IF i > Len(ss) THEN acc
    ELSE subsLoop(zone, subStep(zone, acc, ss[i], md, ms), ss, md, ms, i + 1)

\* [threw, series]: series is the returned array of {month, amount}
calcSeries(zone, ss, md, ms) ==
    LET acc == subsLoop(zone, [threw |-> FALSE, map |-> newMap(ms)], ss, md, ms, 1)
    IN  IF acc.threw
        THEN [threw |-> TRUE, series |-> <<>>]
        ELSE [threw |-> FALSE,
              series |-> [i \in 1..Len(ms) |->
                            [month |-> ms[i], amount |-> MathRound(acc.map[ms[i]])]]]

-----------------------------------------------------------------------------
(* Inputs *)

LastYear == FirstYear + NumYears - 1

\* host offsets: New York (winter), UTC, Amsterdam (summer)
TimeZones == {-5, 0, 2}

Modes == {"cash", "mrr"}

DateStr(y, m, d) == y * 10000 + m * 100 + d

LastDay(y, m) == MakeDay(y, m, 1) - MakeDay(y, m - 1, 1)

\* first, a middle and the last day of a month
DaysOf(y, m) == {1, 15, LastDay(y, m)}

DatesIn(y, ms) == UNION {{DateStr(y, m, d) : d \in DaysOf(y, m)} : m \in ms}

StartDates == DatesIn(FirstYear, {1, 2, 12})

CancelDates == {NULL} \cup DatesIn(FirstYear, {2}) \cup DatesIn(LastYear, {12})

\* prices in units of 1/PriceDen euro: a fraction of a euro, 6 euro, 12 euro
Prices == {1, 6 * PriceDen, 12 * PriceDen}

NoAmounts == [k \in {} |-> 0]

Sub(bt, cad, p, sd, cd, va) ==
    [billingType |-> bt, cadence |-> cad, price |-> p,
     startDate |-> sd, cancelDate |-> cd, variableAmounts |-> va]

RecurringItems ==
    {Sub("recurring", cad, p, sd, cd, NoAmounts) :
        cad \in {"monthly", "yearly"}, p \in Prices \ {12 * PriceDen},
        sd \in StartDates, cd \in CancelDates}

OneTimeItems ==
    {Sub("onetime", "monthly", p, sd, NULL, NoAmounts) :
        p \in Prices \ {12 * PriceDen}, sd \in StartDates}

VariableMaps ==
    UNION {[ks -> {1, 2 * PriceDen}] :
             ks \in SUBSET {FormatMonthKey(FirstYear, 1), FormatMonthKey(FirstYear, 3)}}

\* price, cadence, startDate and cancelDate of a variable item take several values
VariableItems ==
    {Sub("variable", cad, p, sd, cd, va) :
        cad \in {"monthly", "yearly"}, p \in {0, 6 * PriceDen},
        sd \in {DateStr(FirstYear, 1, 1), DateStr(FirstYear, 12, 31)},
        cd \in {NULL, DateStr(FirstYear, 2, 1)}, va \in VariableMaps}

\* yearly items whose price is a whole number of euros per month
YearlyDozenItems ==
    {Sub("recurring", "yearly", 12 * PriceDen, sd, NULL, NoAmounts) :
        sd \in {DateStr(FirstYear, 1, 1), DateStr(FirstYear, 2, 15)}}

\* every single item the engine is probed with
Items == RecurringItems \cup OneTimeItems \cup VariableItems \cup YearlyDozenItems

\* the items that are combined into longer lists: one of each kind, away from
\* the month boundaries
CoreItems ==
    { Sub("recurring", "monthly", 1, DateStr(FirstYear, 1, 15), NULL, NoAmounts),
      Sub("recurring", "monthly", 2 * PriceDen, DateStr(FirstYear, 1, 15),
          DateStr(FirstYear, 2, 15), NoAmounts),
      Sub("recurring", "yearly", 6 * PriceDen, DateStr(FirstYear, 2, 15), NULL, NoAmounts),
      Sub("onetime", "monthly", 3 * PriceDen, DateStr(FirstYear, 2, 15), NULL, NoAmounts),
      Sub("variable", "monthly", 0, DateStr(FirstYear, 1, 1), NULL,
          [k \in {FormatMonthKey(FirstYear, 1), FormatMonthKey(FirstYear, 3)} |->
              IF k = FormatMonthKey(FirstYear, 1) THEN 1 ELSE 2 * PriceDen]) }

SeqsUpTo(S, n) == UNION {[1..k -> S] : k \in 0..n}

\* the twelve months of year y, as App builds them
YearMonths(y) == [i \in 1..12 |-> FormatMonthKey(y, i)]

\* all months of the years FirstYear..LastYear in ascending order
AllMonths == [i \in 1..(12 * NumYears) |->
                FormatMonthKey(FirstYear + (i - 1) \div 12, ((i - 1) % 12) + 1)]

RangeLists == {YearMonths(y) : y \in FirstYear..LastYear} \cup {AllMonths}

\* free-form lists: empty, unsorted, with gaps, with duplicates
FreeLists == SeqsUpTo({FormatMonthKey(FirstYear, m) : m \in 1..3}, MaxMonthsLen)

\* start and end keys given to monthsBetweenInclusive on their own: the months
\* around a turn of the year, in either order
RangeKeys == {FormatMonthKey(FirstYear, m) : m \in {1, 2, 11, 12}}
                \cup {FormatMonthKey(FirstYear + 1, m) : m \in {1, 2, 12}}

RangePairs == {<<f, t>> : f \in RangeKeys, t \in RangeKeys}

NoRet == [op |-> "none", mode |-> "none", threw |-> FALSE, series |-> <<>>,
          cashMonths |-> {}, month |-> 0, active |-> FALSE, range |-> <<>>]

\* useState(null) of error; a message is a string
NoError == "null"

\* the engine is called outside the hook: no table, the hook as first rendered
HookUnused ==
    /\ db = [rows |-> <<>>, nextId |-> 1]
    /\ companies = <<>>
    /\ loading = TRUE
    /\ error = NoError
    /\ proc = <<>>

-----------------------------------------------------------------------------
(* Specification: the inputs are drawn in Init, one action per function *)

Init ==
    /\ tz \in TimeZones
    /\ \/ /\ subs \in {<<s>> : s \in Items}
          /\ months \in RangeLists
       \/ /\ subs \in SeqsUpTo(CoreItems, MaxItems)
          /\ months \in FreeLists \cup {YearMonths(FirstYear)}
       \/ /\ subs = <<>>
          /\ months \in RangePairs
    /\ pc = "input"
    /\ ret = NoRet
    /\ HookUnused

\* calcSeries(subs, mode, months)
CalcSeries(md) ==
    /\ pc = "input"
    /\ pc' = "calcSeries"
    /\ LET r == calcSeries(tz, subs, md, months)
       IN  ret' = [NoRet EXCEPT !.op = "calcSeries", !.mode = md,
                                !.threw = r.threw, !.series = r.series]
    /\ UNCHANGED <<tz, subs, months>>
    /\ UNCHANGED hookVars

\* billMonthsCash(subs[0], months[0], months[months.length - 1]), the call of calcSeries
BillMonthsCash ==
    /\ pc = "input"
    /\ Len(subs) >= 1
    /\ Len(months) >= 1
    /\ pc' = "billMonthsCash"
    /\ ret' = [NoRet EXCEPT !.op = "billMonthsCash",
                  !.cashMonths = billMonthsCash(tz, subs[1], months[1], months[Len(months)])]
    /\ UNCHANGED <<tz, subs, months>>
    /\ UNCHANGED hookVars

\* isActiveInMonth(subs[0], y, m) for a requested month
IsActiveInMonth(i) ==
    /\ pc = "input"
    /\ Len(subs) >= 1
    /\ i \in 1..Len(months)
    /\ pc' = "isActiveInMonth"
    /\ ret' = [NoRet EXCEPT !.op = "isActiveInMonth", !.month = months[i],
                  !.active = isActiveInMonth(tz, subs[1], ParseMonthKey(months[i])[1],
                                             ParseMonthKey(months[i])[2])]
    /\ UNCHANGED <<tz, subs, months>>
    /\ UNCHANGED hookVars

\* monthsBetweenInclusive(months[0], months[months.length - 1]), the range
\* billMonthsCash walks
MonthsBetweenInclusive ==
    /\ pc = "input"
    /\ Len(months) >= 1
    /\ pc' = "monthsBetweenInclusive"
    /\ ret' = [NoRet EXCEPT !.op = "monthsBetweenInclusive",
                  !.range = monthsBetweenInclusive(tz, months[1], months[Len(months)])]
    /\ UNCHANGED <<tz, subs, months>>
    /\ UNCHANGED hookVars

Next ==
    \/ \E md \in Modes : CalcSeries(md)
    \/ BillMonthsCash
    \/ MonthsBetweenInclusive
    \/ \E i \in 1..(12 * NumYears) : IsActiveInMonth(i)

Spec == Init /\ [][Next]_vars

\* items whose billingType or cadence is outside the declared unions: the
\* types are erased at run time and billingType is read from a free-text
\* database column
UntypedItems ==
    {Sub(bt, cad, 6 * PriceDen, sd, NULL, NoAmounts) :
        bt \in {"other"}, cad \in {"monthly", "yearly", "weekly"},
        sd \in {DateStr(FirstYear, 1, 15), DateStr(FirstYear, 2, 15)}}
    \cup {Sub("recurring", "weekly", 6 * PriceDen, sd, NULL, NoAmounts) :
            sd \in {DateStr(FirstYear, 1, 15), DateStr(FirstYear, 2, 15)}}

\* the engine probed with one untyped item and a non-empty months list
InitUntyped ==
    /\ tz \in TimeZones
    /\ subs \in {<<s>> : s \in UntypedItems}
    /\ months \in RangeLists \cup (FreeLists \ {<<>>})
    /\ pc = "input"
    /\ ret = NoRet
    /\ HookUnused

SpecUntyped == InitUntyped /\ [][Next]_vars

-----------------------------------------------------------------------------
(* App: the handlers that change state.subs *)

\* ids as uid() hands them out
AppIds == {"a", "b"}

\* the number values that are not finite
Infinity == 1000000

NaN == 1000001

\* Number.isFinite(value)
IsFinite(value) == value \notin {NaN, Infinity, 0 - Infinity}

\* an item of state.subs: the engine's fields and the id
AppSub(id, sub) ==
    [id |-> id, billingType |-> sub.billingType, cadence |-> sub.cadence,
     price |-> sub.price, startDate |-> sub.startDate, cancelDate |-> sub.cancelDate,
     variableAmounts |-> sub.variableAmounts]

IdsOf(ss) == {ss[k].id : k \in 1..Len(ss)}

\* the form of the new-item dialog; cancelDate "" is NULL (form.cancelDate || null)
Forms ==
    [billingType : {"recurring", "onetime", "variable"}, cadence : {"monthly", "yearly"},
     price : {1, 6 * PriceDen}, startDate : {DateStr(FirstYear, 1, 15)},
     cancelDate : {NULL, DateStr(FirstYear, 2, 15)}]

\* subs: [payload, ...prev.subs]; an absent variableAmounts and {} are both
\* the empty map
addItem(ss, id, form) ==
    <<[id |-> id, billingType |-> form.billingType, cadence |-> form.cadence,
       price |-> form.price, startDate |-> form.startDate,
       cancelDate |-> IF form.billingType = "recurring" THEN form.cancelDate ELSE NULL,
       variableAmounts |-> NoAmounts]>> \o ss

\* prev.subs.map((s) => (s.id === id ? { ...s, ...patch } : s))
updateSub(ss, id, patch) ==
    [k \in 1..Len(ss) |-> IF ss[k].id = id THEN patch @@ ss[k] ELSE ss[k]]

\* updateVariableAmount writing the key whatever the value is
updateVariableAmount_alwaysSets(ss, id, mk, value) ==
    [k \in 1..Len(ss) |->
        IF ss[k].id # id THEN ss[k]
        ELSE LET cur == ss[k].variableAmounts
             IN  [ss[k] EXCEPT !.variableAmounts =
                     [m \in DOMAIN cur \cup {mk} |-> IF m = mk THEN value ELSE cur[m]]]]

\* next = { ...(s.variableAmounts || {}) }; next[mk] = value or delete next[mk]
updateVariableAmount(ss, id, mk, value) ==
    [k \in 1..Len(ss) |->
        IF ss[k].id # id THEN ss[k]
        ELSE LET cur == ss[k].variableAmounts
             IN  [ss[k] EXCEPT !.variableAmounts =
                     IF IsFinite(value) /\ value # 0
                     THEN [m \in DOMAIN cur \cup {mk} |-> IF m = mk THEN value ELSE cur[m]]
                     ELSE [m \in DOMAIN cur \ {mk} |-> cur[m]]]]

\* prev.subs.filter((s) => s.id !== id)
removeSub(ss, id) == SelectSeq(ss, LAMBDA s : s.id # id)

\* no handler has run yet
NoCall == [op |-> "none"]

\* the lists App starts from: no item, one recurring item, one one-time item
SeedLists ==
    { <<>>,
      <<AppSub("a", Sub("recurring", "monthly", 6 * PriceDen, DateStr(FirstYear, 1, 15),
                        NULL, NoAmounts))>>,
      <<AppSub("a", Sub("onetime", "monthly", 6 * PriceDen, DateStr(FirstYear, 1, 15),
                        NULL, NoAmounts))>> }

InitItems ==
    /\ tz = 0
    /\ months = YearMonths(FirstYear)
    /\ subs \in SeedLists
    /\ pc = "app"
    /\ ret = NoCall
    /\ HookUnused

\* the Opslaan button of the new-item dialog
AddItem(id, form) ==
    /\ pc = "app"
    /\ id \notin IdsOf(subs)
    /\ subs' = addItem(subs, id, form)
    /\ ret' = [op |-> "addItem", id |-> id]
    /\ UNCHANGED <<tz, months, pc>>
    /\ UNCHANGED hookVars

\* the editors of a table row; the cadence select and the end date input are
\* rendered for a recurring item only
UpdateBillingType(id, bt) ==
    /\ pc = "app"
    /\ id \in IdsOf(subs)
    /\ subs' = updateSub(subs, id, [billingType |-> bt])
    /\ ret' = [op |-> "updateSub", id |-> id]
    /\ UNCHANGED <<tz, months, pc>>
    /\ UNCHANGED hookVars

UpdateCadence(id, cad) ==
    /\ pc = "app"
    /\ \E k \in 1..Len(subs) : subs[k].id = id /\ subs[k].billingType = "recurring"
    /\ subs' = updateSub(subs, id, [cadence |-> cad])
    /\ ret' = [op |-> "updateSub", id |-> id]
    /\ UNCHANGED <<tz, months, pc>>
    /\ UNCHANGED hookVars

UpdatePrice(id, p) ==
    /\ pc = "app"
    /\ id \in IdsOf(subs)
    /\ subs' = updateSub(subs, id, [price |-> p])
    /\ ret' = [op |-> "updateSub", id |-> id]
    /\ UNCHANGED <<tz, months, pc>>
    /\ UNCHANGED hookVars

UpdateStartDate(id, sd) ==
    /\ pc = "app"
    /\ id \in IdsOf(subs)
    /\ subs' = updateSub(subs, id, [startDate |-> sd])
    /\ ret' = [op |-> "updateSub", id |-> id]
    /\ UNCHANGED <<tz, months, pc>>
    /\ UNCHANGED hookVars

UpdateCancelDate(id, cd) ==
    /\ pc = "app"
    /\ \E k \in 1..Len(subs) : subs[k].id = id /\ subs[k].billingType = "recurring"
    /\ subs' = updateSub(subs, id, [cancelDate |-> cd])
    /\ ret' = [op |-> "updateSub", id |-> id]
    /\ UNCHANGED <<tz, months, pc>>
    /\ UNCHANGED hookVars

\* the X button of a table row
RemoveSub(id) ==
    /\ pc = "app"
    /\ id \in IdsOf(subs)
    /\ subs' = removeSub(subs, id)
    /\ ret' = [op |-> "removeSub", id |-> id]
    /\ UNCHANGED <<tz, months, pc>>
    /\ UNCHANGED hookVars

NextItems ==
    \/ \E id \in AppIds, form \in Forms : AddItem(id, form)
    \/ \E id \in AppIds, bt \in {"recurring", "onetime", "variable"} : UpdateBillingType(id, bt)
    \/ \E id \in AppIds, cad \in {"monthly", "yearly"} : UpdateCadence(id, cad)
    \/ \E id \in AppIds, p \in {1, 6 * PriceDen} : UpdatePrice(id, p)
    \/ \E id \in AppIds, sd \in {DateStr(FirstYear, 1, 15), DateStr(FirstYear, 2, 15)} :
          UpdateStartDate(id, sd)
    \/ \E id \in AppIds, cd \in {NULL, DateStr(FirstYear, 2, 15)} : UpdateCancelDate(id, cd)
    \/ \E id \in AppIds : RemoveSub(id)

SpecItems == InitItems /\ [][NextItems]_vars

\* the months of the variable-amounts dialog and the numbers typed into it:
\* Number("") is 0, an unreadable number is NaN
AmountMonths == {FormatMonthKey(FirstYear, 1), FormatMonthKey(FirstYear, 2)}

AmountValues == {0, NaN, Infinity, 0 - Infinity, 0 - 1, 1, 2 * PriceDen}

\* lists with a variable item, its map empty or filled for one month
AmountLists ==
    LET var(id, va) == AppSub(id, Sub("variable", "monthly", 0, DateStr(FirstYear, 1, 1),
                                      NULL, va))
        rec(id)     == AppSub(id, Sub("recurring", "monthly", 6 * PriceDen,
                                      DateStr(FirstYear, 1, 15), NULL, NoAmounts))
        jan         == [m \in {FormatMonthKey(FirstYear, 1)} |-> 1]
    IN  { <<var("a", NoAmounts)>>, <<var("a", jan), rec("b")>>,
          <<var("a", NoAmounts), var("b", jan)>> }

InitAmounts ==
    /\ tz \in TimeZones
    /\ months = YearMonths(FirstYear)
    /\ subs \in AmountLists
    /\ pc = "app"
    /\ ret = NoCall
    /\ HookUnused

\* an input of the variable-amounts dialog, or a call with an id no item has
UpdateVariableAmount(id, mk, value) ==
    /\ pc = "app"
    /\ subs' = updateVariableAmount(subs, id, mk, value)
    /\ ret' = [op |-> "updateVariableAmount", id |-> id, month |-> mk, value |-> value]
    /\ UNCHANGED <<tz, months, pc>>
    /\ UNCHANGED hookVars

NextAmounts ==
    \E id \in AppIds \cup {"none"}, mk \in AmountMonths, value \in AmountValues :
        UpdateVariableAmount(id, mk, value)

SpecAmounts == InitAmounts /\ [][NextAmounts]_vars

-----------------------------------------------------------------------------
(* useDatabase: the hook over the revenue_entries table.  An async function  *)
(* runs up to its await in one step, the statement it awaits takes effect on *)
(* the table in a later step, and the code after the await runs in a third   *)
(* step; steps of different calls interleave.                                *)

\* the calls in flight at most: the load on mount, a refresh, one
\* addSubscription and one deleteSubscription
Loads == {"mount", "refresh"}

Procs == Loads \cup {"add", "delete"}

\* Number.prototype.toString and parseInt on the ids of the table
ParseInt(s) == CHOOSE n \in 0..9 : ToString(n) = s

\* category: sub.billingType, amount: sub.price, date: sub.startDate
subscriptionToRevenueEntry(sub) ==
    [amount |-> sub.price, category |-> sub.billingType, date |-> sub.startDate]

\* billingType: entry.category || 'onetime', cadence: 'monthly', cancelDate: null
revenueEntryToSubscription(entry) ==
    [id |-> ToString(entry.id), price |-> entry.amount,
     billingType |-> IF entry.category = "" THEN "onetime" ELSE entry.category,
     cadence |-> "monthly", startDate |-> entry.date, cancelDate |-> NULL,
     variableAmounts |-> NoAmounts]

\* the conversion losing the newest row
ConvertAll_dropsNewest(rows) ==
    [i \in 1..(Len(rows) - 1) |-> revenueEntryToSubscription(rows[i + 1])]

\* revenueData.map(converters.revenueEntryToSubscription)
ConvertAll(rows) == [i \in 1..Len(rows) |-> revenueEntryToSubscription(rows[i])]

\* SELECT * FROM revenue_entries ORDER BY created_at DESC: rows is kept
\* newest first
getAll(d) == d.rows

\* INSERT ... RETURNING *: the table after the statement and the new row
create(d, data) ==
    LET entry == [id |-> d.nextId, amount |-> data.amount,
                  category |-> data.category, date |-> data.date]
    IN  [db |-> [rows |-> <<entry>> \o d.rows, nextId |-> d.nextId + 1], entry |-> entry]

\* DELETE FROM revenue_entries WHERE id = ${id}
delete(d, numId) == [d EXCEPT !.rows = SelectSeq(d.rows, LAMBDA r : r.id # numId)]

\* SELECT * FROM businesses
BusinessRows == <<[id |-> 1, name |-> "TableTech"]>>

\* the item handed to addSubscription
NewSubData ==
    Sub("recurring", "yearly", 6 * PriceDen, DateStr(FirstYear, 2, 15),
        DateStr(FirstYear + 1, 2, 15), NoAmounts)

\* a call that was not made yet; errSince records, for a load in flight,
\* that another call has set error since the load cleared it
Idle == [pc |-> "idle", biz |-> "none", rev |-> "none", data |-> <<>>, id |-> "",
         ok |-> TRUE, failed |-> FALSE, threw |-> FALSE, errSince |-> FALSE]

\* setError by a call other than the loads in flight
MarkErr(pr, setter) ==
    [p \in Procs |->
        IF p \in Loads /\ p # setter /\ pr[p].pc = "await"
        THEN [pr[p] EXCEPT !.errSince = TRUE] ELSE pr[p]]

\* the component has mounted over a table of one or two rows
InitHook ==
    /\ tz = 0
    /\ months = <<>>
    /\ pc = "hook"
    /\ ret = NoCall
    /\ db \in { [rows |-> <<[id |-> 1, amount |-> 6 * PriceDen, category |-> "recurring",
                            date |-> DateStr(FirstYear, 1, 15)]>>, nextId |-> 2],
                [rows |-> <<[id |-> 2, amount |-> 1, category |-> "",
                            date |-> DateStr(FirstYear, 2, 15)],
                           [id |-> 1, amount |-> 6 * PriceDen, category |-> "recurring",
                            date |-> DateStr(FirstYear, 1, 15)]>>, nextId |-> 3] }
    /\ subs = <<>>
    /\ companies = <<>>
    /\ loading = TRUE
    /\ error = NoError
    /\ proc = [p \in Procs |-> Idle]

\* loadData up to its await: setLoading(true), setError(null), both queries sent
LoadStart(p) ==
    /\ proc[p].pc = "idle"
    /\ p = "refresh" => proc["mount"].pc # "idle"
    /\ loading' = TRUE
    /\ error' = NoError
    /\ proc' = [proc EXCEPT ![p] = [@ EXCEPT !.pc = "await", !.biz = "pending",
                                             !.rev = "pending", !.errSince = FALSE]]
    /\ UNCHANGED <<tz, subs, months, pc, ret, db, companies>>

\* businessOperations.getAll() settles
BusinessReply(p, good) ==
    /\ proc[p].pc = "await" /\ proc[p].biz = "pending"
    /\ proc' = [proc EXCEPT ![p].biz = IF good THEN "ok" ELSE "failed"]
    /\ UNCHANGED <<tz, subs, months, pc, ret, db, companies, loading, error>>

\* subscriptionOperations.getAll() settles: the rows of the table as they are
\* when the statement runs
RevenueReply(p, good) ==
    /\ proc[p].pc = "await" /\ proc[p].rev = "pending"
    /\ proc' = [proc EXCEPT ![p] = [@ EXCEPT !.rev = IF good THEN "ok" ELSE "failed",
                                             !.data = IF good THEN getAll(db) ELSE <<>>]]
    /\ UNCHANGED <<tz, subs, months, pc, ret, db, companies, loading, error>>

\* the code after the await: Promise.all rejects with the first rejection and
\* resolves when both have resolved
LoadResume(p) ==
    /\ proc[p].pc = "await"
    /\ IF proc[p].biz = "failed" \/ proc[p].rev = "failed"
       THEN /\ error' = "Database fout"
            /\ companies' = <<>>
            /\ subs' = <<>>
            /\ proc' = [MarkErr(proc, p) EXCEPT ![p] = [@ EXCEPT !.pc = "done", !.failed = TRUE]]
       ELSE /\ proc[p].biz = "ok" /\ proc[p].rev = "ok"
            /\ companies' = BusinessRows
            /\ subs' = ConvertAll(proc[p].data)
            /\ proc' = [proc EXCEPT ![p].pc = "done"]
            /\ UNCHANGED error
    /\ loading' = FALSE
    /\ UNCHANGED <<tz, months, pc, ret, db>>

\* addSubscription up to its await
AddCall ==
    /\ proc["add"].pc = "idle"
    /\ proc["mount"].pc # "idle"
    /\ proc' = [proc EXCEPT !["add"].pc = "called"]
    /\ UNCHANGED <<tz, subs, months, pc, ret, db, companies, loading, error>>

\* the INSERT runs or fails
AddExec(good) ==
    /\ proc["add"].pc = "called"
    /\ LET r == create(db, subscriptionToRevenueEntry(NewSubData))
       IN  IF good
           THEN /\ db' = r.db
                /\ proc' = [proc EXCEPT !["add"] = [@ EXCEPT !.pc = "await", !.data = <<r.entry>>]]
           ELSE /\ db' = db
                /\ proc' = [proc EXCEPT !["add"] = [@ EXCEPT !.pc = "await", !.ok = FALSE]]
    /\ UNCHANGED <<tz, subs, months, pc, ret, companies, loading, error>>

\* setSubs(prev => [newSub, ...prev]), or setError and rethrow
AddResume ==
    /\ proc["add"].pc = "await"
    /\ IF proc["add"].ok
       THEN /\ subs' = <<revenueEntryToSubscription(proc["add"].data[1])>> \o subs
            /\ proc' = [proc EXCEPT !["add"].pc = "done"]
            /\ UNCHANGED error
       ELSE /\ error' = "Fout bij toevoegen item"
            /\ proc' = [MarkErr(proc, "add") EXCEPT !["add"] =
                            [@ EXCEPT !.pc = "done", !.failed = TRUE, !.threw = TRUE]]
            /\ UNCHANGED subs
    /\ UNCHANGED <<tz, months, pc, ret, db, companies, loading>>

\* deleteSubscription(id) for an item of the list, up to its await
DeleteCall(id) ==
    /\ proc["delete"].pc = "idle"
    /\ id \in IdsOf(subs)
    /\ proc' = [proc EXCEPT !["delete"] = [@ EXCEPT !.pc = "called", !.id = id]]
    /\ UNCHANGED <<tz, subs, months, pc, ret, db, companies, loading, error>>

\* the DELETE runs or fails
DeleteExec(good) ==
    /\ proc["delete"].pc = "called"
    /\ db' = IF good THEN delete(db, ParseInt(proc["delete"].id)) ELSE db
    /\ proc' = [proc EXCEPT !["delete"] = [@ EXCEPT !.pc = "await", !.ok = good]]
    /\ UNCHANGED <<tz, subs, months, pc, ret, companies, loading, error>>

\* setSubs(prev => prev.filter(s => s.id !== id)), or setError and rethrow
DeleteResume ==
    /\ proc["delete"].pc = "await"
    /\ IF proc["delete"].ok
       THEN /\ subs' = SelectSeq(subs, LAMBDA s : s.id # proc["delete"].id)
            /\ proc' = [proc EXCEPT !["delete"].pc = "done"]
            /\ UNCHANGED error
       ELSE /\ error' = "Fout bij verwijderen item"
            /\ proc' = [MarkErr(proc, "delete") EXCEPT !["delete"] =
                            [@ EXCEPT !.pc = "done", !.failed = TRUE, !.threw = TRUE]]
            /\ UNCHANGED subs
    /\ UNCHANGED <<tz, months, pc, ret, db, companies, loading>>

\* the steps the database and the event loop take once a call was made
Settle ==
    \/ \E p \in Loads, good \in BOOLEAN : BusinessReply(p, good)
    \/ \E p \in Loads, good \in BOOLEAN : RevenueReply(p, good)
    \/ \E p \in Loads : LoadResume(p)
    \/ \E good \in BOOLEAN : AddExec(good)
    \/ AddResume
    \/ \E good \in BOOLEAN : DeleteExec(good)
    \/ DeleteResume

NextHook ==
    \/ \E p \in Loads : LoadStart(p)
    \/ AddCall
    \/ \E id \in {"1", "2", "3"} : DeleteCall(id)
    \/ Settle

SpecHook == InitHook /\ [][NextHook]_vars

\* every query and statement settles and every continuation runs
FairSpecHook == SpecHook /\ WF_vars(Settle)

-----------------------------------------------------------------------------
(* Calendar reading of the strings, independent of the host: the terms the   *)
(* properties below are stated in                                            *)

\* the YYYY-MM prefix of a YYYY-MM-DD string
StrMonth(d) == d \div 100

\* the MM of a YYYY-MM-DD string
StrMonthNum(d) == (d \div 100) % 100

FirstDayStr(mk) == mk * 100 + 1

LastDayStr(mk) == mk * 100 + LastDay(mk \div 100, mk % 100)

\* startDate <= monthEnd and (no endDate or endDate >= monthStart), on naive dates
NaiveActive(sub, mk) ==
    /\ sub.startDate <= LastDayStr(mk)
    /\ (sub.cancelDate = NULL \/ sub.cancelDate >= FirstDayStr(mk))

CodeActive(sub, mk) == isActiveInMonth(tz, sub, ParseMonthKey(mk)[1], ParseMonthKey(mk)[2])

Ascending(ms) == \A i \in 1..(Len(ms) - 1) : ms[i] < ms[i + 1]

DupFree(ms) == \A i, j \in 1..Len(ms) : i # j => ms[i] # ms[j]

NextKey(mk) == IF mk % 100 = 12 THEN mk + 89 ELSE mk + 1

\* twelve consecutive months
TwelveMonths(ms) == Len(ms) = 12 /\ \A i \in 1..11 : ms[i + 1] = NextKey(ms[i])

Recurring(sub, cad) == sub.billingType = "recurring" /\ sub.cadence = cad

\* the sum of Contribution(ss[i], mk) over the items from index i on
SumOver(Contribution(_, _), ss, mk) ==
    LET RECURSIVE from(_)
        from(i) == IF i > Len(ss) THEN 0 ELSE Contribution(ss[i], mk) + from(i + 1)
    IN  from(1)

RECURSIVE SumAmounts(_, _)
\* the sum of the amounts of the points i.. of a series
SumAmounts(series, i) ==
    IF i > Len(series) THEN 0 ELSE series[i].amount + SumAmounts(series, i + 1)

CalcDone(md) == pc = "calcSeries" /\ ret.mode = md

-----------------------------------------------------------------------------
(* C1 *)

\* what one item adds to month mk in cash mode, in units of 1/(12*PriceDen) euro
CashContribution(sub, mk) ==
    IF sub.billingType = "onetime"
    THEN (IF mk = StrMonth(sub.startDate) THEN 12 * sub.price ELSE 0)
    ELSE IF Recurring(sub, "monthly")
    THEN (IF CodeActive(sub, mk) THEN 12 * sub.price ELSE 0)
    ELSE IF Recurring(sub, "yearly")
    THEN (IF CodeActive(sub, mk) /\ mk % 100 = StrMonthNum(sub.startDate)
          THEN 12 * sub.price ELSE 0)
    ELSE IF sub.billingType = "variable" /\ mk \in DOMAIN sub.variableAmounts
    THEN 12 * sub.variableAmounts[mk]
    ELSE 0

\* C1: in cash mode, for an ascending, duplicate-free, non-empty months list,
\* every point of the series is the once-rounded sum over the items of: price
\* for a one-time item in the month of its startDate, price for a monthly item
\* in a month it is active, price for a yearly item in an active month whose
\* number is that of startDate, the keyed amount for a variable item, else 0.
C1_CashSeries ==
    (CalcDone("cash") /\ Len(months) >= 1 /\ Ascending(months)) =>
        /\ ~ret.threw
        /\ Len(ret.series) = Len(months)
        /\ \A i \in 1..Len(months) :
              ret.series[i].amount = MathRound(SumOver(CashContribution, subs, months[i]))

-----------------------------------------------------------------------------
(* C2 *)

\* price for recurring-monthly, price/12 for recurring-yearly, 0 for one-time;
\* nothing for a variable item or an item that is not active in mk
MrrContribution(sub, mk) ==
    IF sub.billingType = "variable" \/ ~CodeActive(sub, mk) THEN 0
    ELSE IF sub.billingType = "onetime" THEN 0
    ELSE IF sub.cadence = "monthly" THEN 12 * sub.price
    ELSE sub.price

MrrPoints ==
    /\ ~ret.threw
    /\ Len(ret.series) = Len(months)
    /\ \A i \in 1..Len(months) :
          ret.series[i].amount = MathRound(SumOver(MrrContribution, subs, months[i]))

\* C2 as claimed: in normalized mode, for every months list, every point is the
\* once-rounded sum of monthlyMRR over the recurring and one-time items active
\* in that month; variable items add nothing.
C2_MrrSeriesAnyList == CalcDone("mrr") => MrrPoints

\* C2 as amended: the same for every duplicate-free months list (a month that
\* is listed k times receives every active item's amount k times).
C2_MrrSeries == (CalcDone("mrr") /\ DupFree(months)) => MrrPoints

\* two items, one of them variable, and a month with a non-zero normalized amount
C2_Witness ==
    /\ CalcDone("mrr") /\ DupFree(months) /\ Len(months) >= 2 /\ Len(subs) >= 2
    /\ \E k \in 1..Len(subs) : subs[k].billingType = "variable"
    /\ \E k \in 1..Len(subs) : Recurring(subs[k], "yearly")
    /\ \E i \in 1..Len(months) : ret.series[i].amount > 0

-----------------------------------------------------------------------------
(* C3 *)

\* C3: for every items list, mode and months list the call returns a series of
\* the length of months whose i-th point carries the i-th requested month.
C3_SeriesShape ==
    pc = "calcSeries" =>
        /\ ~ret.threw
        /\ Len(ret.series) = Len(months)
        /\ \A i \in 1..Len(months) : ret.series[i].month = months[i]

-----------------------------------------------------------------------------
(* C4 *)

\* C4: a recurring item is active in a month exactly when startDate is on or
\* before the last day of the month and cancelDate is null or on or after its
\* first day, the dates read as naive calendar dates, on every host.
C4_RecurringActive ==
    (pc = "isActiveInMonth" /\ subs[1].billingType = "recurring") =>
        (ret.active <=> NaiveActive(subs[1], ret.month))

-----------------------------------------------------------------------------
(* C5 *)

\* the months from..to of the calendar
KeysBetween(from, to) == {mk \in from..to : mk % 100 \in 1..12}

\* C5: a one-time item is active in exactly the month written in its startDate,
\* and its cash is recognized in exactly that month when the month lies in the
\* requested range and in no month otherwise, on every host.
C5_OneTimeMonth ==
    /\ (pc = "isActiveInMonth" /\ subs[1].billingType = "onetime") =>
          (ret.active <=> ret.month = StrMonth(subs[1].startDate))
    /\ (pc = "billMonthsCash" /\ subs[1].billingType = "onetime"
            /\ months[1] <= months[Len(months)]) =>
          ret.cashMonths = {StrMonth(subs[1].startDate)}
                              \cap KeysBetween(months[1], months[Len(months)])

-----------------------------------------------------------------------------
(* C6 *)

\* one recurring-monthly item that the engine finds active in each of twelve
\* consecutive requested months, and the series of either mode
MonthlyAllYear ==
    /\ pc = "calcSeries"
    /\ Len(subs) = 1
    /\ Recurring(subs[1], "monthly")
    /\ TwelveMonths(months)
    /\ \A i \in 1..12 : CodeActive(subs[1], months[i])

\* C6 as claimed: for every price P >= 0, whole or fractional, the twelve
\* amounts of either mode sum to 12*P.
C6_YearSumAnyPrice ==
    MonthlyAllYear => SumAmounts(ret.series, 1) * PriceDen = 12 * subs[1].price

\* C6 as amended: the twelve amounts of either mode sum to 12*round(P), which
\* is 12*P when P is a whole number.
C6_YearSum ==
    MonthlyAllYear =>
        /\ SumAmounts(ret.series, 1) = 12 * MathRound(12 * subs[1].price)
        /\ (subs[1].price % PriceDen = 0 =>
               SumAmounts(ret.series, 1) * PriceDen = 12 * subs[1].price)

\* a whole price of 6 euro, active all year, in normalized mode: 72 euro
C6_Witness ==
    /\ MonthlyAllYear
    /\ ret.mode = "mrr"
    /\ subs[1].price = 6 * PriceDen
    /\ SumAmounts(ret.series, 1) = 72

-----------------------------------------------------------------------------
(* C7 *)

\* C7: a yearly item of whole price P without cancelDate that starts on any
\* day of month M of the queried year gets, in cash mode over the twelve months
\* of that year, P in month M and 0 in the other eleven months.
C7_YearlyCash ==
    (/\ CalcDone("cash")
     /\ Len(subs) = 1
     /\ Recurring(subs[1], "yearly")
     /\ subs[1].cancelDate = NULL
     /\ subs[1].price % PriceDen = 0
     /\ months = YearMonths(subs[1].startDate \div 10000)) =>
        \A i \in 1..12 :
            ret.series[i].amount * PriceDen =
                IF months[i] = StrMonth(subs[1].startDate) THEN subs[1].price ELSE 0

-----------------------------------------------------------------------------
(* C8 *)

\* C8: a yearly item of price P without cancelDate gets, in normalized mode,
\* round(P/12) in every requested month from its start month on and 0 in every
\* requested month before it (months listed once).
C8_YearlyMrr ==
    (/\ CalcDone("mrr")
     /\ Len(subs) = 1
     /\ Recurring(subs[1], "yearly")
     /\ subs[1].cancelDate = NULL
     /\ DupFree(months)) =>
        \A i \in 1..Len(months) :
            ret.series[i].amount =
                IF months[i] >= StrMonth(subs[1].startDate)
                THEN MathRound(subs[1].price) ELSE 0

-----------------------------------------------------------------------------
(* C9 *)

\* C9: for a yearly item and an inclusive range, billMonthsCash returns exactly
\* the months of the range whose number is the month number of startDate and in
\* which the item is active.
C9_YearlyCashMonths ==
    (/\ pc = "billMonthsCash"
     /\ Recurring(subs[1], "yearly")
     /\ months[1] <= months[Len(months)]) =>
        ret.cashMonths =
            {mk \in KeysBetween(months[1], months[Len(months)]) :
                /\ mk % 100 = StrMonthNum(subs[1].startDate)
                /\ CodeActive(subs[1], mk)}

-----------------------------------------------------------------------------
(* C10 *)

\* C10: a monthly item that starts on or before its cancelDate, which lies on
\* any day of month E, gets 0 in every requested month after E and its amount
\* round(P) in month E, in both modes (months listed once).
C10_CancelMonth ==
    (/\ pc = "calcSeries"
     /\ Len(subs) = 1
     /\ Recurring(subs[1], "monthly")
     /\ subs[1].cancelDate # NULL
     /\ subs[1].startDate <= subs[1].cancelDate
     /\ Len(months) >= 1 /\ Ascending(months)) =>
        \A i \in 1..Len(months) :
            /\ months[i] > StrMonth(subs[1].cancelDate) => ret.series[i].amount = 0
            /\ months[i] = StrMonth(subs[1].cancelDate) =>
                   ret.series[i].amount = MathRound(12 * subs[1].price)
-----------------------------------------------------------------------------
(* C11 *)

\* C11: a one-time item of whole price P paid in month M gets, in cash mode,
\* P in month M and 0 in every other requested month, and in normalized mode 0
\* in every requested month (months ascending).
C11_OneTimeSeries ==
    (/\ pc = "calcSeries"
     /\ Len(subs) = 1
     /\ subs[1].billingType = "onetime"
     /\ subs[1].price % PriceDen = 0
     /\ Len(months) >= 1 /\ Ascending(months)) =>
        \A i \in 1..Len(months) :
            ret.series[i].amount * PriceDen =
                IF ret.mode = "cash" /\ months[i] = StrMonth(subs[1].startDate)
                THEN subs[1].price ELSE 0

-----------------------------------------------------------------------------
(* C12 *)

VariableAlone == pc = "calcSeries" /\ Len(subs) = 1 /\ subs[1].billingType = "variable"

\* C12 as claimed: a variable item gets, in cash mode, in each requested month
\* that is a key of variableAmounts exactly that key's amount and 0 in every
\* other requested month, whatever its price, startDate, cadence and
\* cancelDate; in normalized mode it gets 0 in every month.
C12_VariableExactAmount ==
    VariableAlone =>
        /\ ~ret.threw
        /\ Len(ret.series) = Len(months)
        /\ \A i \in 1..Len(months) :
              ret.series[i].amount * PriceDen =
                  IF ret.mode = "cash" /\ months[i] \in DOMAIN subs[1].variableAmounts
                  THEN subs[1].variableAmounts[months[i]] ELSE 0

\* C12 as amended: the same with the key's amount rounded to the nearest
\* integer, for months lists without duplicates.
C12_Variable ==
    (VariableAlone /\ DupFree(months)) =>
        /\ ~ret.threw
        /\ Len(ret.series) = Len(months)
        /\ \A i \in 1..Len(months) :
              ret.series[i].amount =
                  IF ret.mode = "cash" /\ months[i] \in DOMAIN subs[1].variableAmounts
                  THEN MathRound(12 * subs[1].variableAmounts[months[i]]) ELSE 0

\* a variable item with a price, a yearly cadence and a cancelDate: 2 euro in
\* its keyed January, 0 in February
C12_Witness ==
    /\ VariableAlone /\ ret.mode = "cash" /\ months = YearMonths(FirstYear)
    /\ subs[1].price > 0 /\ subs[1].cadence = "yearly" /\ subs[1].cancelDate # NULL
    /\ FormatMonthKey(FirstYear, 1) \in DOMAIN subs[1].variableAmounts
    /\ ret.series[1].amount = 2
    /\ ret.series[2].amount = 0
-----------------------------------------------------------------------------
(* C13 *)

\* how often month mk is listed
Occurrences(ms, mk) == Cardinality({j \in 1..Len(ms) : ms[j] = mk})

\* the cash months of each non-variable item of a cash-mode call
CashSets ==
    [k \in 1..Len(subs) |->
        IF ret.mode = "cash" /\ subs[k].billingType # "variable" /\ Len(months) >= 1
        THEN billMonthsCash(tz, subs[k], months[1], months[Len(months)])
        ELSE {}]

\* what item k adds to the total of month mk in the mode of the call, in
\* units of 1/(12*PriceDen) euro, before any rounding; cs is CashSets
Contribution(cs, k, mk) ==
    IF ret.mode = "mrr"
    THEN Occurrences(months, mk) * MrrContribution(subs[k], mk)
    ELSE IF subs[k].billingType = "variable"
    THEN (IF mk \in DOMAIN subs[k].variableAmounts
          THEN Occurrences(months, mk) * 12 * subs[k].variableAmounts[mk] ELSE 0)
    ELSE (IF mk \in cs[k] THEN 12 * subs[k].price ELSE 0)

\* the exact sum of the contributions of the items k.. to month mk
RECURSIVE SumExact(_, _, _)
SumExact(cs, mk, k) ==
    IF k > Len(subs) THEN 0 ELSE Contribution(cs, k, mk) + SumExact(cs, mk, k + 1)

\* the sum over the items k.. of each contribution rounded on its own
RECURSIVE SumRounded(_, _, _)
SumRounded(cs, mk, k) ==
    IF k > Len(subs) THEN 0
    ELSE MathRound(Contribution(cs, k, mk)) + SumRounded(cs, mk, k + 1)

\* C13: every amount of a returned series is the exact sum of the items'
\* contributions to that month, rounded once to the nearest integer with
\* halves up; no contribution is rounded before it is added.
C13_RoundedOnce ==
    (pc = "calcSeries" /\ ~ret.threw) =>
        \A cs \in {CashSets} : \A i \in 1..Len(months) :
            /\ ret.series[i].amount \in Int
            /\ ret.series[i].amount = MathRound(SumExact(cs, months[i], 1))

\* two items whose amounts have a fraction: the month's amount differs from
\* the sum of the two rounded contributions
C13_Witness ==
    /\ pc = "calcSeries" /\ ~ret.threw /\ Len(subs) = 2
    /\ \E cs \in {CashSets} : \E i \in 1..Len(months) :
          /\ Contribution(cs, 1, months[i]) % (12 * PriceDen) # 0
          /\ ret.series[i].amount # SumRounded(cs, months[i], 1)
-----------------------------------------------------------------------------
(* C15 *)

InvalidItemKind(sub) ==
    \/ sub.billingType \notin {"recurring", "onetime", "variable"}
    \/ sub.billingType = "recurring" /\ sub.cadence \notin {"monthly", "yearly"}

\* C15: a call of calcSeries, billMonthsCash or isActiveInMonth that an item
\* of unrecognized billingType, or a recurring item of unrecognized cadence,
\* reaches fails with an error: the item is never active, never billed and
\* never contributes an amount.
C15_InvalidItemKind ==
    (pc \in {"calcSeries", "billMonthsCash", "isActiveInMonth"}
        /\ Len(subs) = 1 /\ InvalidItemKind(subs[1])) =>
        /\ pc = "calcSeries" => ret.threw
        /\ ret.cashMonths = {}
        /\ ~ret.active
        /\ \A i \in 1..Len(ret.series) : ret.series[i].amount = 0
-----------------------------------------------------------------------------
(* C16 *)

\* C16: for an empty months list calcSeries returns an empty series and
\* raises no error, whatever the items and the mode.
C16_EmptyMonths ==
    (pc = "calcSeries" /\ months = <<>>) => (~ret.threw /\ ret.series = <<>>)
-----------------------------------------------------------------------------
(* C17 *)

\* C17: for an empty items list calcSeries returns one point of amount 0 for
\* every requested month, in both modes and for every months list, the empty
\* list included.
C17_NoItems ==
    (pc = "calcSeries" /\ subs = <<>>) =>
        /\ ~ret.threw
        /\ Len(ret.series) = Len(months)
        /\ \A i \in 1..Len(months) :
              ret.series[i].month = months[i] /\ ret.series[i].amount = 0

\* no item, several requested months out of order
C17_Witness ==
    /\ pc = "calcSeries" /\ subs = <<>> /\ ret.mode = "cash"
    /\ Len(months) = 2 /\ months[1] > months[2]
    /\ Len(ret.series) = 2
-----------------------------------------------------------------------------
(* C18 *)

\* C18: monthsBetweenInclusive(start, end) returns exactly the month keys m
\* with start <= m <= end, each once and in ascending order, every entry one
\* calendar month after the one before it (January of the next year after
\* December); it returns the empty sequence when start is after end.
C18_MonthsBetween ==
    pc = "monthsBetweenInclusive" =>
        LET from == months[1]
            to   == months[Len(months)]
            r    == ret.range
        IN  /\ SeqToSet(r) = KeysBetween(from, to)
            /\ Len(r) = Cardinality(KeysBetween(from, to))
            /\ \A i \in 1..(Len(r) - 1) : r[i + 1] = NextKey(r[i])
            /\ from > to => r = <<>>
            /\ from <= to => r[1] = from /\ r[Len(r)] = to

\* a range over the turn of the year, on a host west of UTC
C18_Witness ==
    /\ pc = "monthsBetweenInclusive" /\ tz < 0
    /\ months[1] = FormatMonthKey(FirstYear, 11)
    /\ months[Len(months)] = FormatMonthKey(FirstYear + 1, 2)
    /\ ret.range = <<FormatMonthKey(FirstYear, 11), FormatMonthKey(FirstYear, 12),
                     FormatMonthKey(FirstYear + 1, 1), FormatMonthKey(FirstYear + 1, 2)>>
-----------------------------------------------------------------------------
(* C19 *)

\* ms in ascending order (insertion sort)
RECURSIVE Insert(_, _)
Insert(s, x) ==
    IF s = <<>> THEN <<x>>
    ELSE IF x <= s[1] THEN <<x>> \o s
    ELSE <<s[1]>> \o Insert(Tail(s), x)

RECURSIVE SortAsc(_)
SortAsc(ms) == IF ms = <<>> THEN <<>> ELSE Insert(SortAsc(Tail(ms)), ms[1])

\* the amount a series returns for month mk
AmountOf(series, mk) ==
    LET i == CHOOSE j \in 1..Len(series) : series[j].month = mk
    IN  series[i].amount

\* C19: in cash mode the amount calcSeries returns for a requested month is
\* the amount it returns for that month when the same months are passed in
\* ascending order: the attribution range is the minimum and maximum of the
\* list, not its first and last element.
C19_RangeIsMinMax ==
    (pc = "calcSeries" /\ ret.mode = "cash" /\ months # <<>>) =>
        LET sorted == calcSeries(tz, subs, "cash", SortAsc(months))
        IN  /\ ~ret.threw /\ ~sorted.threw
            /\ \A i \in 1..Len(months) :
                  ret.series[i].amount = AmountOf(sorted.series, months[i])
-----------------------------------------------------------------------------
(* C20 *)

OtherMode(md) == IF md = "cash" THEN "mrr" ELSE "cash"

OnlyMonthly(ss) ==
    \A k \in 1..Len(ss) : ss[k].billingType = "recurring" /\ ss[k].cadence = "monthly"

\* C20: for a list of recurring-monthly items only and an ascending months
\* list, the cash series and the normalized series of calcSeries are the same
\* point for point.
C20_MonthlyModesAgree ==
    (pc = "calcSeries" /\ OnlyMonthly(subs) /\ Ascending(months)) =>
        LET other == calcSeries(tz, subs, OtherMode(ret.mode), months)
        IN  /\ ~ret.threw /\ ~other.threw
            /\ ret.series = other.series

\* the same for the non-empty ascending lists
C20_MonthlyModesAgreeNonEmpty ==
    (pc = "calcSeries" /\ OnlyMonthly(subs) /\ Ascending(months) /\ months # <<>>) =>
        LET other == calcSeries(tz, subs, OtherMode(ret.mode), months)
        IN  /\ ~ret.threw /\ ~other.threw
            /\ ret.series = other.series
-----------------------------------------------------------------------------
(* C22 *)

\* C22: for an ascending months list without duplicates the amount calcSeries
\* returns for a month is the amount of the single-month call
\* calcSeries(items, mode, [m])[0], in both modes.
C22_SingleMonth ==
    (pc = "calcSeries" /\ Ascending(months) /\ DupFree(months) /\ months # <<>>) =>
        /\ ~ret.threw
        /\ \A i \in 1..Len(months) :
              \A one \in {calcSeries(tz, subs, ret.mode, <<months[i]>>)} :
                  ~one.threw /\ ret.series[i].amount = one.series[1].amount

\* two items over a list with a gap, a non-zero amount in the last month
C22_Witness ==
    /\ pc = "calcSeries" /\ ret.mode = "cash" /\ ~ret.threw /\ Len(subs) = 2
    /\ months = <<FormatMonthKey(FirstYear, 1), FormatMonthKey(FirstYear, 3)>>
    /\ ret.series[2].amount > 0
    /\ ret.series[2].amount =
          calcSeries(tz, subs, "cash", <<months[2]>>).series[1].amount
-----------------------------------------------------------------------------
(* C23 *)

\* one recurring-yearly item that the engine finds active in each of twelve
\* consecutive requested months
YearlyAllYear ==
    /\ pc = "calcSeries"
    /\ Len(subs) = 1
    /\ Recurring(subs[1], "yearly")
    /\ TwelveMonths(months)
    /\ \A i \in 1..12 : CodeActive(subs[1], months[i])

\* the sum of the twelve amounts of the call in mode md
YearSum(md) == SumAmounts(calcSeries(tz, subs, md, months).series, 1)

\* C23 as claimed: for every price P the twelve cash amounts and the twelve
\* normalized amounts of the item have the same sum, and that sum is P.
C23_YearlyTotalsAnyPrice ==
    YearlyAllYear =>
        /\ YearSum("cash") = YearSum("mrr")
        /\ SumAmounts(ret.series, 1) * PriceDen = subs[1].price

\* C23 as amended: the twelve cash amounts sum to round(P) and the twelve
\* normalized amounts to 12*round(P/12); when P is a whole multiple of 12 the
\* two sums are equal, both P.
C23_YearlyTotals ==
    YearlyAllYear =>
        /\ ret.mode = "cash" => SumAmounts(ret.series, 1) = MathRound(12 * subs[1].price)
        /\ ret.mode = "mrr" => SumAmounts(ret.series, 1) = 12 * MathRound(subs[1].price)
        /\ (subs[1].price % (12 * PriceDen) = 0 =>
               /\ YearSum("cash") = YearSum("mrr")
               /\ SumAmounts(ret.series, 1) * PriceDen = subs[1].price)

\* a price of 12 euro a year, active all year: 12 euro in either mode
C23_Witness ==
    /\ YearlyAllYear
    /\ ret.mode = "mrr"
    /\ subs[1].price = 12 * PriceDen
    /\ SumAmounts(ret.series, 1) = 12
    /\ YearSum("cash") = 12
-----------------------------------------------------------------------------
(* C24 *)

\* values the fields without meaning are changed to
OtherCadence(sub) == IF sub.cadence = "monthly" THEN "yearly" ELSE "monthly"

OtherAmounts == [k \in {FormatMonthKey(FirstYear, 1), FormatMonthKey(FirstYear, 2)} |-> 1]

\* the items that differ from sub in fields its kind gives no meaning to: one
\* field changed at a time, and all of them changed together
SameMeaning(sub) ==
    IF sub.billingType = "onetime"
    THEN {[sub EXCEPT !.cadence = OtherCadence(sub)],
          [sub EXCEPT !.cancelDate = DateStr(FirstYear, 1, 1)],
          [sub EXCEPT !.cancelDate = DateStr(LastYear, 12, 31)],
          [sub EXCEPT !.variableAmounts = OtherAmounts],
          [sub EXCEPT !.cadence = OtherCadence(sub), !.cancelDate = DateStr(FirstYear, 1, 1),
                      !.variableAmounts = OtherAmounts]}
    ELSE IF sub.billingType = "recurring"
    THEN {[sub EXCEPT !.variableAmounts = OtherAmounts],
          [sub EXCEPT !.variableAmounts = [k \in {FormatMonthKey(LastYear, 12)} |-> 2 * PriceDen]]}
    ELSE {[sub EXCEPT !.price = 1],
          [sub EXCEPT !.price = 6 * PriceDen + 1],
          [sub EXCEPT !.cadence = OtherCadence(sub)],
          [sub EXCEPT !.startDate = DateStr(FirstYear, 3, 1)],
          [sub EXCEPT !.cancelDate = DateStr(FirstYear, 1, 15)],
          [sub EXCEPT !.price = 1, !.cadence = OtherCadence(sub),
                      !.startDate = DateStr(FirstYear, 3, 1),
                      !.cancelDate = DateStr(FirstYear, 1, 15)]}

\* C24: the outcome of calcSeries is unchanged when an item is replaced by one
\* that differs in fields without meaning for its kind: cadence, cancelDate
\* and variableAmounts of a one-time item, variableAmounts of a recurring
\* item, price, cadence, startDate and cancelDate of a variable item.
C24_MeaningfulFields ==
    pc = "calcSeries" =>
        \A k \in 1..Len(subs) : \A other \in SameMeaning(subs[k]) :
            \A r \in {calcSeries(tz, [subs EXCEPT ![k] = other], ret.mode, months)} :
                r.threw = ret.threw /\ r.series = ret.series

\* a one-time item that is paid in a requested month, against the same item
\* with a yearly cadence, an end date before its payment date and a variable
\* amount in the month
C24_Witness ==
    /\ pc = "calcSeries" /\ ret.mode = "cash" /\ ~ret.threw
    /\ Len(subs) = 1 /\ subs[1].billingType = "onetime"
    /\ months = YearMonths(FirstYear)
    /\ ret.series[2].amount > 0
    /\ calcSeries(tz, <<[subs[1] EXCEPT !.cadence = "yearly",
                                        !.cancelDate = DateStr(FirstYear, 1, 1),
                                        !.variableAmounts = OtherAmounts]>>,
                  "cash", months).series = ret.series
-----------------------------------------------------------------------------
(* C26 *)

\* C26: whatever addItem, updateSub and removeSub calls were made, every item
\* whose billingType is not recurring has cancelDate null.
C26_EndDateOnlyOnRecurring ==
    pc = "app" =>
        \A k \in 1..Len(subs) :
            subs[k].billingType # "recurring" => subs[k].cancelDate = NULL
-----------------------------------------------------------------------------
(* C25 *)

\* no variableAmounts map holds a zero or a value that is not finite
NoZeroAmount(ss) ==
    \A k \in 1..Len(ss) : \A m \in DOMAIN ss[k].variableAmounts :
        ss[k].variableAmounts[m] # 0 /\ IsFinite(ss[k].variableAmounts[m])

\* what the call updateVariableAmount(id, mk, value) makes of the list before
\* into the list after
AmountSet(before, after, id, mk, value) ==
    /\ Len(after) = Len(before)
    /\ \A k \in 1..Len(before) :
          IF before[k].id # id THEN after[k] = before[k]
          ELSE LET old == before[k].variableAmounts
                   new == after[k].variableAmounts
               IN  /\ after[k] = [before[k] EXCEPT !.variableAmounts = new]
                   /\ DOMAIN new \ {mk} = DOMAIN old \ {mk}
                   /\ \A m \in DOMAIN old \ {mk} : new[m] = old[m]
                   /\ IF IsFinite(value) /\ value # 0
                      THEN mk \in DOMAIN new /\ new[mk] = value
                      ELSE mk \notin DOMAIN new
                   /\ after[k].billingType = "variable" =>
                         (isActiveInMonth(tz, after[k], ParseMonthKey(mk)[1],
                                          ParseMonthKey(mk)[2])
                            <=> (IsFinite(value) /\ value # 0))

\* C25: after any sequence of updateVariableAmount calls no map holds a zero
\* or non-finite value; a call with a finite non-zero value sets that month's
\* key of the item with the given id, a call with 0 or a non-finite value
\* removes the key, so that the item is not active in that month, and every
\* other key and every other item stays as it was.
C25_VariableAmounts ==
    /\ [](pc = "app" => NoZeroAmount(subs))
    /\ [][ret'.op = "updateVariableAmount" =>
            AmountSet(subs, subs', ret'.id, ret'.month, ret'.value)]_vars

\* a 0 was typed for a month of an item that keeps its other month, next to
\* an item with an amount of its own
C25_Witness ==
    /\ pc = "app" /\ ret.op = "updateVariableAmount" /\ ret.value = 0 /\ Len(subs) = 2
    /\ \E k \in 1..2 :
          /\ subs[k].id = ret.id
          /\ ret.month \notin DOMAIN subs[k].variableAmounts
          /\ subs[k].variableAmounts # NoAmounts
          /\ subs[3 - k].variableAmounts # NoAmounts
-----------------------------------------------------------------------------
(* C21 *)

\* the step in which the load p runs its code after the await
LoadEnds(p) == proc[p].pc = "await" /\ proc'[p].pc = "done"

\* what C21 says of the end of a run, but for the value of error after a run
\* whose queries both succeeded
LoadOutcome(p) ==
    /\ loading' = FALSE
    /\ proc'[p].failed <=> (proc[p].biz = "failed" \/ proc[p].rev = "failed")
    /\ ~proc'[p].threw
    /\ proc'[p].failed =>
          companies' = <<>> /\ subs' = <<>> /\ error' # NoError
    /\ ~proc'[p].failed =>
          /\ Len(subs') = Len(proc[p].data)
          /\ \A i \in 1..Len(subs') :
                /\ subs'[i].id = ToString(proc[p].data[i].id)
                /\ subs'[i] = revenueEntryToSubscription(proc[p].data[i])

\* every run that was started ends
LoadsEnd == \A p \in Loads : (proc[p].pc = "await") ~> (proc[p].pc = "done")

-----------------------------------------------------------------------------
(* C27 *)

\* every call that was made has completed
Quiet == \A p \in Procs : proc[p].pc \in {"idle", "done"}

\* a call of kind p was made and did what it was asked to
Succeeded(p) == proc[p].pc = "done" /\ ~proc[p].failed

\* the local list shows the rows of the table, each once
SubsMatchRows ==
    /\ DupFree(subs)
    /\ IdsOf(subs) = {ToString(db.rows[i].id) : i \in 1..Len(db.rows)}

\* C27: when the loads, the addSubscription and the deleteSubscription that
\* were called have all completed without a failure, in whatever order their
\* steps were taken, the local subs list matches the rows of the table: the
\* added entry is there exactly once and the deleted entry is not.
C27_SubsMatchRows ==
    (/\ pc = "hook"
     /\ Quiet
     /\ Succeeded("mount")
     /\ \A p \in Procs : proc[p].pc = "done" => ~proc[p].failed) =>
        SubsMatchRows

\* the same for the loads alone, overlapping or not: without a call that
\* writes the table the list matches
C27_SubsMatchRowsRefreshOnly ==
    (/\ pc = "hook"
     /\ Quiet
     /\ Succeeded("mount")
     /\ proc["add"].pc = "idle" /\ proc["delete"].pc = "idle"
     /\ \A p \in Procs : proc[p].pc = "done" => ~proc[p].failed) =>
        SubsMatchRows

====
